---------------------------- MODULE Spec2Model ----------------------------
(***************************************************************************)
(* rustypub: ActivityStreams / ActivityPub JSON-LD documents.              *)
(*                                                                         *)
(* A JSON text is modelled as the sequence of its top-level members        *)
(* <<key, value>>, in wire order and with duplicate keys possible.  A JSON *)
(* value is a record [kind, s, m]: kind is "null", "number", "string" or   *)
(* "object"; s is the scalar's lexeme; m maps member names to values.      *)
(* serde's derived (de)serializers for the structs of src/src/lib.rs and   *)
(* src/src/core.rs are written out as operators over these.                *)
(***************************************************************************)
EXTENDS Naturals, Sequences, FiniteSets, TLC

VARIABLES kind, phase, entity, actor, res, nsets, written

vars == <<kind, phase, entity, actor, res, nsets, written>>

\* ---------------------------------------------------------------- bounds
MaxMembers == 4
MaxSets == 2

\* ----------------------------------------------------------- JSON values
EmptyMap == [k \in {} |-> k]

JNull == [kind |-> "null", s |-> "null", m |-> EmptyMap]
JNum(n) == [kind |-> "number", s |-> n, m |-> EmptyMap]
JStr(x) == [kind |-> "string", s |-> x, m |-> EmptyMap]
JObj(map) == [kind |-> "object", s |-> "", m |-> map]

\* serde_json::Map keeps its keys sorted (BTreeMap); the keys of the model
\* in byte order.
KeyOrder ==
    << "@context", "content", "href", "id", "inbox", "name", "object",
       "outbox", "type" >>

Keys(members) == {members[i][1] : i \in 1..Len(members)}

Count(members, key) ==
    Cardinality({i \in 1..Len(members) : members[i][1] = key})

\* The value of the last member called key (Map::insert replaces).
Last(members, key) ==
    LET at == {i \in 1..Len(members) : members[i][1] = key}
        top == CHOOSE i \in at : \A j \in at : j <= i
    IN  members[top][2]

\* Collecting members into a serde_json::Map: a later duplicate wins.
ToMap(members) == [k \in Keys(members) |-> Last(members, k)]

Without(members, known) ==
    LET Unknown(e) == e[1] \notin known
    IN  SelectSeq(members, Unknown)

\* Iterating a serde_json::Map: its entries in key order.
Entries(map) ==
    LET InMap(k) == k \in DOMAIN map
        ks == SelectSeq(KeyOrder, InMap)
    IN  [i \in 1..Len(ks) |-> <<ks[i], map[ks[i]]>>]

Insert(map, key, value) ==
    [k \in DOMAIN map \cup {key} |-> IF k = key THEN value ELSE map[k]]

Err == <<"Err">>
Ok(x) == <<"Ok", x>>
IsOk(r) == r[1] = "Ok"

None == <<"None">>
Some(x) == <<"Some", x>>
IsSome(r) == r[1] = "Some"


\* ------------------------------------------------- closed enumerations
ObjectType ==
    { "Activity", "IntransitiveActivity", "Accept", "Add", "Announce",
      "Arrive", "Block", "Create", "Delete", "Dislike", "Flag", "Follow",
      "Ignore", "Invite", "Join", "Leave", "Like", "Listen", "Move", "Offer",
      "Question", "Reject", "Read", "Remove", "TentativeAccept",
      "TentativeReject", "Travel", "Undo", "Update", "View",
      "Actor", "Application", "Group", "Organisation", "Person", "Service",
      "Object", "Article", "Audio", "Document", "Event", "Image", "Note",
      "Page", "Place", "Profile", "Relationship", "Tombstone", "Video",
      "Collection", "CollectionPage", "OrderedCollection",
      "OrderedCollectionPage" }

LinkType == {"Link", "Mention"}

ActorType == {"Application", "Group", "Organisation", "Person", "Service"}

\* Context::default()
DefaultContext == "https://www.w3.org/ns/activitystreams"

\* ------------------------------------------- conversions of one value
\* A unit-variant enum reads a string naming one of its variants.
IsVariant(v, variants) == v.kind = "string" /\ v.s \in variants

\* String reads a JSON string only.
IsString(v) == v.kind = "string"

\* Option<String> reads null as None and a string as Some.
IsOptionString(v) == v.kind \in {"null", "string"}

OptionString(v) == IF v.kind = "string" THEN <<v.s>> ELSE <<>>

\* #[serde(untagged)] enum Context { Simple(String) }: the only variant
\* tried is a string.
IsContext(v) == IsString(v)

\* --------------------------------- derived Deserialize, struct by struct
\* A struct with a #[serde(flatten)] field visits the members in order: a
\* known name seen twice is "duplicate field", a known value that does not
\* convert is an error, a required name never seen is "missing field", and
\* every other member is collected for the flattened field.

\* Faulty variant of ObjectAccepts: a repeated known name is tolerated, the
\* last occurrence winning.
ObjectAccepts_LastWins(members) ==
    /\ Count(members, "type") >= 1
    /\ IsVariant(Last(members, "type"), ObjectType)
    /\ Count(members, "id") >= 1 => IsOptionString(Last(members, "id"))

\* lib.rs Object { id: Option<String>, type: ObjectType, ..extra_fields }
ObjectAccepts(members) ==
    /\ Count(members, "type") = 1
    /\ IsVariant(Last(members, "type"), ObjectType)
    /\ Count(members, "id") <= 1
    /\ Count(members, "id") = 1 => IsOptionString(Last(members, "id"))

DeserializeObject(members) ==
    IF ObjectAccepts(members)
    THEN Ok([ id |-> IF Count(members, "id") = 1
                     THEN OptionString(Last(members, "id")) ELSE <<>>,
              ty |-> Last(members, "type").s,
              extra_fields |-> JObj(ToMap(Without(members, {"id", "type"}))) ])
    ELSE Err

\* lib.rs Link { type: LinkType, id: Option<String>, href: String,
\*               ..extra_fields }
LinkAccepts(members) ==
    /\ Count(members, "type") = 1
    /\ IsVariant(Last(members, "type"), LinkType)
    /\ Count(members, "id") <= 1
    /\ Count(members, "id") = 1 => IsOptionString(Last(members, "id"))
    /\ Count(members, "href") = 1
    /\ IsString(Last(members, "href"))

DeserializeLink(members) ==
    IF LinkAccepts(members)
    THEN Ok([ ty |-> Last(members, "type").s,
              id |-> IF Count(members, "id") = 1
                     THEN OptionString(Last(members, "id")) ELSE <<>>,
              href |-> Last(members, "href").s,
              extra_fields |->
                  JObj(ToMap(Without(members, {"type", "id", "href"}))) ])
    ELSE Err

\* Faulty variant of DeserializeObjectOrLink: the presence of href, not the
\* first shape that fits, selects the variant.
DeserializeObjectOrLink_ByHref(members) ==
    IF "href" \in Keys(members)
    THEN IF IsOk(DeserializeLink(members))
         THEN Ok(<<"Link", DeserializeLink(members)[2]>>) ELSE Err
    ELSE IF IsOk(DeserializeObject(members))
         THEN Ok(<<"Object", DeserializeObject(members)[2]>>) ELSE Err

\* lib.rs #[serde(untagged)] enum ObjectOrLink { Object(Object), Link(Link) }:
\* the variants are tried in declaration order on the buffered value.
DeserializeObjectOrLink(members) ==
    IF IsOk(DeserializeObject(members))
    THEN Ok(<<"Object", DeserializeObject(members)[2]>>)
    ELSE IF IsOk(DeserializeLink(members))
         THEN Ok(<<"Link", DeserializeLink(members)[2]>>)
         ELSE Err

\* lib.rs JsonLdDocument { @context: Context, ..object: Object }
DeserializeDocument(members) ==
    IF /\ Count(members, "@context") = 1
       /\ IsContext(Last(members, "@context"))
       /\ IsOk(DeserializeObject(Without(members, {"@context"})))
    THEN Ok([ context |-> Last(members, "@context").s,
              object |-> DeserializeObject(Without(members, {"@context"}))[2] ])
    ELSE Err

\* core.rs JsonLdDocument { @context: Context, ..extra_fields }
DeserializeCoreDocument(members) ==
    IF /\ Count(members, "@context") = 1
       /\ IsContext(Last(members, "@context"))
    THEN Ok([ context |-> Last(members, "@context").s,
              extra_fields |-> JObj(ToMap(Without(members, {"@context"}))) ])
    ELSE Err

\* Faulty variant of DeserializeActor: type is read as an ObjectType.
DeserializeActor_AnyObjectType(members) ==
    IF /\ Count(members, "type") = 1
       /\ IsVariant(Last(members, "type"), ObjectType)
       /\ Count(members, "inbox") = 1
       /\ IsString(Last(members, "inbox"))
       /\ Count(members, "outbox") = 1
       /\ IsString(Last(members, "outbox"))
    THEN Ok([ ty |-> Last(members, "type").s,
              inbox |-> Last(members, "inbox").s,
              outbox |-> Last(members, "outbox").s,
              extra_fields |->
                  JObj(ToMap(Without(members, {"type", "inbox", "outbox"}))) ])
    ELSE Err

\* core.rs Actor { type: ActorType, inbox: String, outbox: String,
\*                 ..extra_fields }
DeserializeActor(members) ==
    IF /\ Count(members, "type") = 1
       /\ IsVariant(Last(members, "type"), ActorType)
       /\ Count(members, "inbox") = 1
       /\ IsString(Last(members, "inbox"))
       /\ Count(members, "outbox") = 1
       /\ IsString(Last(members, "outbox"))
    THEN Ok([ ty |-> Last(members, "type").s,
              inbox |-> Last(members, "inbox").s,
              outbox |-> Last(members, "outbox").s,
              extra_fields |->
                  JObj(ToMap(Without(members, {"type", "inbox", "outbox"}))) ])
    ELSE Err

\* lib.rs tests: struct Inner { object: ObjectOrLink }.  No flatten: other
\* members are ignored, a repeated `object` is a duplicate field.
DeserializeInner(members) ==
    IF /\ Count(members, "object") = 1
       /\ Last(members, "object").kind = "object"
       /\ IsOk(DeserializeObjectOrLink(Entries(Last(members, "object").m)))
    THEN Ok([ object |->
                DeserializeObjectOrLink(Entries(Last(members, "object").m))[2] ])
    ELSE Err

\* ----------------------------------- derived Serialize, struct by struct
\* serialize_map: the struct's own fields in declaration order, an id of
\* None skipped, then the entries of the flattened map; nothing merges two
\* entries of the same name.  Flattening a value that is not a map is an
\* error ("can only flatten structs and maps").
\* Faulty variant of SerializeObject: the flattened extra_fields are left out.
SerializeObject_NoFlatten(o) ==
    Ok((IF o.id = <<>> THEN <<>> ELSE << <<"id", JStr(o.id[1])>> >>)
           \o << <<"type", JStr(o.ty)>> >>)

SerializeObject(o) ==
    IF o.extra_fields.kind = "object"
    THEN Ok((IF o.id = <<>> THEN <<>> ELSE << <<"id", JStr(o.id[1])>> >>)
                \o << <<"type", JStr(o.ty)>> >>
                \o Entries(o.extra_fields.m))
    ELSE Err

SerializeLink(l) ==
    IF l.extra_fields.kind = "object"
    THEN Ok(<< <<"type", JStr(l.ty)>> >>
                \o (IF l.id = <<>> THEN <<>> ELSE << <<"id", JStr(l.id[1])>> >>)
                \o << <<"href", JStr(l.href)>> >>
                \o Entries(l.extra_fields.m))
    ELSE Err

SerializeDocument(d) ==
    IF IsOk(SerializeObject(d.object))
    THEN Ok(<< <<"@context", JStr(d.context)>> >> \o SerializeObject(d.object)[2])
    ELSE Err

SerializeCoreDocument(d) ==
    IF d.extra_fields.kind = "object"
    THEN Ok(<< <<"@context", JStr(d.context)>> >> \o Entries(d.extra_fields.m))
    ELSE Err

\* ---------------------------------------- serde_json::{from,to}_value
\* The types callers instantiate T with.
GetTypes == {"String", "Json", "Object", "ObjectOrLink"}
ExtractTypes == {"Inner", "Object", "JsonLdDocument"}

\* serde_json::from_value::<T>(v)
FromValue(T, v) ==
    CASE T = "String" -> IF IsString(v) THEN Ok(v.s) ELSE Err
      [] T = "Json" -> Ok(v)
      [] T = "Object" ->
            IF v.kind = "object" THEN DeserializeObject(Entries(v.m)) ELSE Err
      [] T = "ObjectOrLink" ->
            IF v.kind = "object"
            THEN DeserializeObjectOrLink(Entries(v.m)) ELSE Err
      [] T = "Inner" ->
            IF v.kind = "object" THEN DeserializeInner(Entries(v.m)) ELSE Err
      [] T = "JsonLdDocument" ->
            IF v.kind = "object" THEN DeserializeDocument(Entries(v.m)) ELSE Err

\* serde_json::to_value(&x) for x: T.  A map keyed by something other than
\* a string has no JSON form.
ToValue(T, x) ==
    CASE T = "String" -> Ok(JStr(x))
      [] T = "Json" -> Ok(x)
      [] T = "NonStringKeyMap" -> Err

\* ------------------------------------------------ field accessor protocol
\* Faulty variant of Object_get_field: a value that does not convert to T is
\* handed back unconverted instead of being dropped.
Object_get_field_Raw(self, field, T) ==
    IF self.extra_fields.kind = "object"
    THEN IF field \in DOMAIN self.extra_fields.m
         THEN IF IsOk(FromValue(T, self.extra_fields.m[field]))
              THEN Some(FromValue(T, self.extra_fields.m[field])[2])
              ELSE Some(self.extra_fields.m[field])
         ELSE None
    ELSE None

Object_get_field(self, field, T) ==
    IF self.extra_fields.kind = "object"
    THEN IF field \in DOMAIN self.extra_fields.m
         THEN IF IsOk(FromValue(T, self.extra_fields.m[field]))
              THEN Some(FromValue(T, self.extra_fields.m[field])[2])
              ELSE None
         ELSE None
    ELSE None

\* Faulty variant of Object_set_field: a name already present is left as it
\* is (insert without overwrite).
Object_set_field_InsertOnly(self, field, T, value) ==
    IF IsOk(ToValue(T, value))
    THEN IF self.extra_fields.kind = "object"
            /\ field \notin DOMAIN self.extra_fields.m
         THEN [self EXCEPT !.extra_fields.m = Insert(@, field, ToValue(T, value)[2])]
         ELSE self
    ELSE self

\* Faulty variant of Object_set_field: a string written under the wire name
\* `id` also lands in the known field.
Object_set_field_Known(self, field, T, value) ==
    IF IsOk(ToValue(T, value))
    THEN IF self.extra_fields.kind = "object"
         THEN [self EXCEPT !.extra_fields.m = Insert(@, field, ToValue(T, value)[2]),
                           !.id = IF field = "id" /\ T = "String"
                                  THEN <<value>> ELSE @]
         ELSE self
    ELSE self

Object_set_field(self, field, T, value) ==
    IF IsOk(ToValue(T, value))
    THEN IF self.extra_fields.kind = "object"
         THEN [self EXCEPT !.extra_fields.m = Insert(@, field, ToValue(T, value)[2])]
         ELSE self
    ELSE self

\* Faulty variant of Object_extract: the known fields id and type are merged
\* back into the aggregate before it is converted.
Object_extract_Merged(self, T) ==
    LET withType == Insert(self.extra_fields.m, "type", JStr(self.ty))
        merged == IF self.id = <<>> THEN withType
                  ELSE Insert(withType, "id", JStr(self.id[1]))
    IN  IF IsOk(FromValue(T, JObj(merged)))
        THEN Some(FromValue(T, JObj(merged))[2])
        ELSE None

Object_extract(self, T) ==
    IF IsOk(FromValue(T, self.extra_fields))
    THEN Some(FromValue(T, self.extra_fields)[2])
    ELSE None

Link_get_field(self, field, T) ==
    IF self.extra_fields.kind = "object"
    THEN IF field \in DOMAIN self.extra_fields.m
         THEN IF IsOk(FromValue(T, self.extra_fields.m[field]))
              THEN Some(FromValue(T, self.extra_fields.m[field])[2])
              ELSE None
         ELSE None
    ELSE None

Link_set_field(self, field, T, value) ==
    IF IsOk(ToValue(T, value))
    THEN IF self.extra_fields.kind = "object"
         THEN [self EXCEPT !.extra_fields.m = Insert(@, field, ToValue(T, value)[2])]
         ELSE self
    ELSE self

JsonLdDocument_get_field(self, field, T) ==
    IF self.extra_fields.kind = "object"
    THEN IF field \in DOMAIN self.extra_fields.m
         THEN IF IsOk(FromValue(T, self.extra_fields.m[field]))
              THEN Some(FromValue(T, self.extra_fields.m[field])[2])
              ELSE None
         ELSE None
    ELSE None

JsonLdDocument_set_field(self, field, T, value) ==
    IF IsOk(ToValue(T, value))
    THEN IF self.extra_fields.kind = "object"
         THEN [self EXCEPT !.extra_fields.m = Insert(@, field, ToValue(T, value)[2])]
         ELSE self
    ELSE self

\* Faulty variant of Actor_try_from: the context is not put back.
Actor_try_from_NoContext(doc) ==
    IF doc.extra_fields.kind = "object"
    THEN DeserializeActor(Entries(doc.extra_fields.m))
    ELSE Err

\* impl TryFrom<JsonLdDocument> for Actor
Actor_try_from(doc) ==
    IF doc.extra_fields.kind = "object"
       /\ IsOk(DeserializeActor(Entries(doc.extra_fields.m)))
    THEN LET parsed == DeserializeActor(Entries(doc.extra_fields.m))[2]
         IN  Ok(IF parsed.extra_fields.kind = "object"
                THEN [parsed EXCEPT !.extra_fields.m =
                                        Insert(@, "@context", JStr(doc.context))]
                ELSE parsed)
    ELSE Err

\* ------------------------------------------------- the four entity kinds
\* "Document" is lib.rs JsonLdDocument (its accessors are those of its
\* public `object`), "CoreDocument" is core.rs JsonLdDocument.
Kinds == {"Document", "Object", "Link", "CoreDocument"}

\* serde_json::from_str::<K>(text)
Parse(k, text) ==
    CASE k = "Document" -> DeserializeDocument(text)
      [] k = "Object" -> DeserializeObject(text)
      [] k = "Link" -> DeserializeLink(text)
      [] k = "CoreDocument" -> DeserializeCoreDocument(text)

\* serde_json::to_string(&e)
Serialize(k, e) ==
    CASE k = "Document" -> SerializeDocument(e)
      [] k = "Object" -> SerializeObject(e)
      [] k = "Link" -> SerializeLink(e)
      [] k = "CoreDocument" -> SerializeCoreDocument(e)

GetField(k, e, field, T) ==
    CASE k = "Document" -> Object_get_field(e.object, field, T)
      [] k = "Object" -> Object_get_field(e, field, T)
      [] k = "Link" -> Link_get_field(e, field, T)
      [] k = "CoreDocument" -> JsonLdDocument_get_field(e, field, T)

SetField(k, e, field, T, value) ==
    CASE k = "Document" ->
            [e EXCEPT !.object = Object_set_field(@, field, T, value)]
      [] k = "Object" -> Object_set_field(e, field, T, value)
      [] k = "Link" -> Link_set_field(e, field, T, value)
      [] k = "CoreDocument" -> JsonLdDocument_set_field(e, field, T, value)

\* The open tail of an entity, as a map.
OpenTail(k, e) == IF k = "Document" THEN e.object.extra_fields.m ELSE e.extra_fields.m

\* The known typed fields of an entity.
Known(k, e) ==
    CASE k = "Document" -> <<e.context, e.object.id, e.object.ty>>
      [] k = "Object" -> <<e.id, e.ty>>
      [] k = "Link" -> <<e.ty, e.id, e.href>>
      [] k = "CoreDocument" -> <<e.context>>

\* The wire names of the known typed fields.
WireNames(k) ==
    CASE k = "Document" -> {"@context", "id", "type"}
      [] k = "Object" -> {"id", "type"}
      [] k = "Link" -> {"type", "id", "href"}
      [] k = "CoreDocument" -> {"@context"}


\* ------------------------------------------------------------- the inputs
\* Nested values for an `object` member.
NoteValue ==
    JObj([type |-> JStr("Note"), content |-> JStr("This is a note")])
LinkValue ==
    JObj([type |-> JStr("Link"), href |-> JStr("https://example.net/~mallory")])
NoteWithHref ==
    JObj([type |-> JStr("Note"), href |-> JStr("https://example.net/~mallory")])
NoteWithNumericId ==
    JObj([type |-> JStr("Note"), id |-> JNum("72")])
MentionWithoutHref ==
    JObj([type |-> JStr("Mention"), name |-> JStr("Alyssa P. Hacker")])

\* The members a text of each kind is made of.
Pool(k) ==
    CASE k = "Document" ->
            { <<"@context", JStr(DefaultContext)>>, <<"@context", JNum("1")>>,
              <<"type", JStr("Create")>>, <<"type", JStr("Mention")>>,
              <<"id", JStr("https://example.net/~mallory/87374")>>,
              <<"id", JNull>>, <<"id", JNum("87374")>>,
              <<"name", JStr("Alyssa P. Hacker")>>,
              <<"object", NoteValue>> }
      [] k = "Object" ->
            { <<"type", JStr("Create")>>,
              <<"id", JStr("https://example.net/~mallory/87374")>>,
              <<"@context", JStr(DefaultContext)>>,
              <<"object", NoteValue>>, <<"object", LinkValue>>,
              <<"object", NoteWithHref>>, <<"object", NoteWithNumericId>>,
              <<"object", MentionWithoutHref>> }
      [] k = "Link" ->
            { <<"type", JStr("Mention")>>, <<"type", JStr("Note")>>,
              <<"href", JStr("https://example.net/~mallory")>>,
              <<"href", JNum("1")>>,
              <<"id", JStr("https://example.net/~mallory/87374")>>,
              <<"id", JNum("87374")>>,
              <<"name", JStr("Alyssa P. Hacker")>> }
      [] k = "CoreDocument" ->
            { <<"@context", JStr(DefaultContext)>>, <<"@context", JNum("1")>>,
              <<"type", JStr("Person")>>, <<"type", JStr("Note")>>,
              <<"inbox", JStr("https://social.example/alyssa/inbox/")>>,
              <<"inbox", JNum("1")>>,
              <<"outbox", JStr("https://social.example/alyssa/outbox/")>>,
              <<"outbox", JNull>>,
              <<"name", JStr("Alyssa P. Hacker")>> }

Texts(k) == UNION {[1..n -> Pool(k)] : n \in 0..MaxMembers}

\* The names and values SetField is called with.
FieldNames(k) ==
    CASE k = "Document" -> {"name", "type", "@context"}
      [] k = "Object" -> {"name", "id"}
      [] k = "Link" -> {"name", "href"}
      [] k = "CoreDocument" -> {"inbox", "@context", "type"}

TypedValues ==
    { <<"String", "https://social.example/brenda/inbox/">>,
      <<"String", "Note">>,
      <<"Json", JNull>>,
      <<"NonStringKeyMap", "">> }

\* The names GetField is called with.
ReadNames(k) == FieldNames(k) \cup {"object", "outbox"}

NoResult ==
    [op |-> "new", field |-> "", ty |-> "", arg |-> <<>>, val |-> <<>>]

\* ------------------------------------------------------ the state machine
Init ==
    /\ kind \in Kinds
    /\ phase = "new"
    /\ entity = <<>>
    /\ actor = <<>>
    /\ res = NoResult
    /\ nsets = 0
    /\ written = EmptyMap

\* let document: K = serde_json::from_str(text)?
ParseText ==
    /\ phase = "new"
    /\ \E text \in Texts(kind) :
        /\ res' = [NoResult EXCEPT !.op = "parse", !.arg = text,
                                   !.val = Parse(kind, text)]
        /\ IF IsOk(Parse(kind, text))
           THEN phase' = "parsed" /\ entity' = Parse(kind, text)[2]
           ELSE phase' = "failed" /\ entity' = entity
    /\ UNCHANGED <<kind, actor, nsets, written>>

\* document.set_field(field, &value)
CallSetField ==
    /\ phase = "parsed"
    /\ nsets < MaxSets
    /\ \E field \in FieldNames(kind), tv \in TypedValues :
        /\ entity' = SetField(kind, entity, field, tv[1], tv[2])
        /\ res' = [NoResult EXCEPT !.op = "set", !.field = field, !.ty = tv[1]]
        /\ written' =
              IF IsOk(ToValue(tv[1], tv[2]))
              THEN Insert(written, field,
                          [ty |-> tv[1], value |-> tv[2],
                           replaced |->
                               /\ field \in DOMAIN OpenTail(kind, entity)
                               /\ OpenTail(kind, entity)[field]
                                      # ToValue(tv[1], tv[2])[2]])
              ELSE written
    /\ nsets' = nsets + 1
    /\ UNCHANGED <<kind, phase, actor>>

\* document.get_field::<T>(field)
CallGetField ==
    /\ phase = "parsed"
    /\ \E field \in ReadNames(kind), T \in GetTypes :
        res' = [NoResult EXCEPT !.op = "get", !.field = field, !.ty = T,
                                !.val = GetField(kind, entity, field, T)]
    /\ UNCHANGED <<kind, phase, entity, actor, nsets, written>>

\* document.object.extract::<T>() (Object alone has the method)
CallExtract ==
    /\ phase = "parsed"
    /\ kind \in {"Document", "Object"}
    /\ \E T \in ExtractTypes :
        res' = [NoResult EXCEPT !.op = "extract", !.ty = T,
                  !.val = Object_extract(
                              IF kind = "Document" THEN entity.object ELSE entity,
                              T)]
    /\ UNCHANGED <<kind, phase, entity, actor, nsets, written>>

\* let serialized = serde_json::to_string(&document)?
CallSerialize ==
    /\ phase = "parsed"
    /\ res' = [NoResult EXCEPT !.op = "serialize", !.val = Serialize(kind, entity)]
    /\ UNCHANGED <<kind, phase, entity, actor, nsets, written>>

\* let deserialized: K = serde_json::from_str(&serialized)
Deserialize ==
    /\ phase = "parsed"
    /\ res.op = "serialize"
    /\ IsOk(res.val)
    /\ res' = [NoResult EXCEPT !.op = "deserialize", !.arg = res.val[2],
                               !.val = Parse(kind, res.val[2])]
    /\ UNCHANGED <<kind, phase, entity, actor, nsets, written>>

\* let person: Actor = document.try_into()   (the document is moved)
ToActor ==
    /\ phase = "parsed"
    /\ kind = "CoreDocument"
    /\ phase' = "moved"
    /\ actor' = Actor_try_from(entity)
    /\ res' = [NoResult EXCEPT !.op = "try_from", !.val = Actor_try_from(entity)]
    /\ UNCHANGED <<kind, entity, nsets, written>>

Next ==
    \/ ParseText
    \/ CallSetField
    \/ CallGetField
    \/ CallExtract
    \/ CallSerialize
    \/ Deserialize
    \/ ToActor

Spec == Init /\ [][Next]_vars


\* ------------------------------------------------------------ properties
\* The shapes of section 3 of the specification, stated on a map of
\* members, for use in the properties below.
IdIsOptionalString(map) ==
    "id" \in DOMAIN map => map["id"].kind \in {"null", "string"}

TypeIn(map, variants) ==
    /\ "type" \in DOMAIN map
    /\ map["type"].kind = "string"
    /\ map["type"].s \in variants

ObjectTypeNames ==
    { "Activity", "IntransitiveActivity", "Accept", "Add", "Announce",
      "Arrive", "Block", "Create", "Delete", "Dislike", "Flag", "Follow",
      "Ignore", "Invite", "Join", "Leave", "Like", "Listen", "Move", "Offer",
      "Question", "Reject", "Read", "Remove", "TentativeAccept",
      "TentativeReject", "Travel", "Undo", "Update", "View", "Actor",
      "Application", "Group", "Organisation", "Person", "Service", "Object",
      "Article", "Audio", "Document", "Event", "Image", "Note", "Page",
      "Place", "Profile", "Relationship", "Tombstone", "Video", "Collection",
      "CollectionPage", "OrderedCollection", "OrderedCollectionPage" }

ObjectShape(map) == TypeIn(map, ObjectTypeNames) /\ IdIsOptionalString(map)

LinkShape(map) ==
    /\ TypeIn(map, {"Link", "Mention"})
    /\ IdIsOptionalString(map)
    /\ "href" \in DOMAIN map
    /\ map["href"].kind = "string"

\* C1: an entity that Parse produced serializes, and the text parses back to
\* an equal entity (known fields and open tail alike).
C1_RoundTripAfterParse ==
    /\ (res.op = "serialize" /\ nsets = 0) => IsOk(res.val)
    /\ (res.op = "deserialize" /\ nsets = 0) =>
            /\ IsOk(res.val)
            /\ res.val[2] = entity
            /\ Known(kind, res.val[2]) = Known(kind, entity)
            /\ OpenTail(kind, res.val[2]) = OpenTail(kind, entity)

C1_Witness ==
    /\ res.op = "deserialize"
    /\ nsets = 0
    /\ kind = "Document"
    /\ entity.object.id # <<>>
    /\ DOMAIN OpenTail(kind, entity) = {"name"}
    /\ IsOk(res.val)

\* C2: GetField<T>(name) after SetField(name, v: T) returns Some(v), whether
\* name was inserted or overwritten, and whatever was set on other names
\* since.
C2_GetAfterSet ==
    (/\ res.op = "get"
     /\ res.field \in DOMAIN written
     /\ res.ty = written[res.field].ty)
        => /\ IsSome(res.val)
           /\ res.val[2] = written[res.field].value

C2_Witness ==
    /\ res.op = "get"
    /\ res.field \in DOMAIN written
    /\ res.ty = written[res.field].ty
    /\ written[res.field].replaced
    /\ Cardinality(DOMAIN written) > 1
    /\ IsSome(res.val)

\* C3: GetField<T> yields nothing for an absent name and for a present
\* value that does not convert to T, and the converted value otherwise; it
\* has no error outcome.
C3_Converts(T, v) ==
    CASE T = "String" -> v.kind = "string"
      [] T = "Json" -> TRUE
      [] T = "Object" -> v.kind = "object" /\ ObjectShape(v.m)
      [] T = "ObjectOrLink" ->
            v.kind = "object" /\ (ObjectShape(v.m) \/ LinkShape(v.m))

C3_Converted(T, v, x) ==
    CASE T = "String" -> x = v.s
      [] T = "Json" -> x = v
      [] T = "Object" -> x.ty = v.m["type"].s
      [] T = "ObjectOrLink" -> x[2].ty = v.m["type"].s

C3_GetFieldNeverFails ==
    res.op = "get" =>
        LET tail == OpenTail(kind, entity)
        IN  /\ res.val = None \/ IsSome(res.val)
            /\ res.field \notin DOMAIN tail => ~IsSome(res.val)
            /\ (/\ res.field \in DOMAIN tail
                /\ ~C3_Converts(res.ty, tail[res.field])) => ~IsSome(res.val)
            /\ (/\ res.field \in DOMAIN tail
                /\ C3_Converts(res.ty, tail[res.field]))
                    => /\ IsSome(res.val)
                       /\ C3_Converted(res.ty, tail[res.field], res.val[2])

C3_Witness ==
    /\ res.op = "get"
    /\ res.ty = "String"
    /\ res.field \in DOMAIN OpenTail(kind, entity)
    /\ OpenTail(kind, entity)[res.field].kind # "string"
    /\ res.val = None


\* A document whose open tail holds an actor type and string-valued inbox
\* and outbox.
ActorShaped(tail) ==
    /\ TypeIn(tail, {"Application", "Group", "Organisation", "Person", "Service"})
    /\ "inbox" \in DOMAIN tail
    /\ tail["inbox"].kind = "string"
    /\ "outbox" \in DOMAIN tail
    /\ tail["outbox"].kind = "string"

\* C4: ToActor of an actor-shaped document succeeds; the Actor's inbox and
\* outbox are the document's (as last written by Parse or SetField) and its
\* open tail holds @context, equal to the document's context.
C4_ActorFidelity ==
    (res.op = "try_from" /\ ActorShaped(entity.extra_fields.m)) =>
        /\ IsOk(actor)
        /\ actor[2].ty = entity.extra_fields.m["type"].s
        /\ actor[2].inbox = entity.extra_fields.m["inbox"].s
        /\ actor[2].outbox = entity.extra_fields.m["outbox"].s
        /\ ("inbox" \in DOMAIN written /\ written["inbox"].ty = "String")
              => actor[2].inbox = written["inbox"].value
        /\ "@context" \in DOMAIN actor[2].extra_fields.m
        /\ actor[2].extra_fields.m["@context"] = JStr(entity.context)

C4_Witness ==
    /\ res.op = "try_from"
    /\ IsOk(actor)
    /\ "inbox" \in DOMAIN written
    /\ written["inbox"].ty = "String"
    /\ actor[2].inbox = "https://social.example/brenda/inbox/"
    /\ actor[2].extra_fields.m["@context"] = JStr(DefaultContext)

\* C5: ToActor fails, and leaves no Actor, when the open tail lacks inbox,
\* outbox or type, holds a non-string inbox or outbox, or holds a type
\* outside ActorType.
C5_ActorRejects ==
    (res.op = "try_from" /\ ~ActorShaped(entity.extra_fields.m)) =>
        /\ ~IsOk(res.val)
        /\ ~IsOk(actor)

C5_Witness ==
    /\ res.op = "try_from"
    /\ TypeIn(entity.extra_fields.m, {"Note"})
    /\ "inbox" \in DOMAIN entity.extra_fields.m
    /\ entity.extra_fields.m["inbox"].kind = "string"
    /\ "outbox" \in DOMAIN entity.extra_fields.m
    /\ actor = Err

\* C6: SetField(name, value) changes the open-tail entry for name and
\* nothing else: the known typed fields and every other open-tail member
\* keep their values, also when name is a known field's wire name.
C6_SetFieldFrame ==
    [][ res'.op = "set" =>
            /\ Known(kind, entity') = Known(kind, entity)
            /\ \A k \in DOMAIN OpenTail(kind, entity) \ {res'.field} :
                  /\ k \in DOMAIN OpenTail(kind, entity')
                  /\ OpenTail(kind, entity')[k] = OpenTail(kind, entity)[k]
            /\ DOMAIN OpenTail(kind, entity')
                  \subseteq DOMAIN OpenTail(kind, entity) \cup {res'.field}
      ]_vars

C6_Witness ==
    /\ res.op = "set"
    /\ res.ty = "String"
    /\ res.field \in WireNames(kind)
    /\ res.field \in DOMAIN OpenTail(kind, entity)
    /\ OpenTail(kind, entity)[res.field]
          = JStr("https://social.example/brenda/inbox/")
    /\ DOMAIN OpenTail(kind, entity) # {res.field}


\* The ObjectOrLink value an operation read, when it read one: GetField
\* <ObjectOrLink> of a member, or Extract<Inner> of the `object` member.
ReadsUnion ==
    \/ /\ res.op = "get"
       /\ res.ty = "ObjectOrLink"
       /\ res.field \in DOMAIN OpenTail(kind, entity)
       /\ OpenTail(kind, entity)[res.field].kind = "object"
    \/ /\ res.op = "extract"
       /\ res.ty = "Inner"
       /\ "object" \in DOMAIN OpenTail(kind, entity)
       /\ OpenTail(kind, entity)["object"].kind = "object"

UnionSource ==
    IF res.op = "get"
    THEN OpenTail(kind, entity)[res.field].m
    ELSE OpenTail(kind, entity)["object"].m

\* The variant recovered, as <<variant, type>>, or <<>> when the read failed.
UnionResult ==
    IF ~IsSome(res.val) THEN <<>>
    ELSE IF res.op = "get"
         THEN <<res.val[2][1], res.val[2][2].ty>>
         ELSE <<res.val[2].object[1], res.val[2].object[2].ty>>

\* C7 as stated: the type alone selects the Object variant, the type and a
\* string href select the Link variant, anything else fails.
C7_VariantByTypeAlone ==
    ReadsUnion =>
        /\ TypeIn(UnionSource, ObjectTypeNames)
              => UnionResult = <<"Object", UnionSource["type"].s>>
        /\ (/\ TypeIn(UnionSource, {"Link", "Mention"})
            /\ "href" \in DOMAIN UnionSource
            /\ UnionSource["href"].kind = "string")
              => UnionResult = <<"Link", UnionSource["type"].s>>
        /\ (~ObjectShape(UnionSource) /\ ~LinkShape(UnionSource))
              => UnionResult = <<>>

\* C7 (amended): a value of Object shape (type in ObjectType, id absent, null
\* or a string) yields the Object variant with that type, href or no href; a
\* value of Link shape (type Link or Mention, string href, id absent, null or
\* a string) yields the Link variant with that type; any other value fails.
C7_VariantByShape ==
    ReadsUnion =>
        /\ ObjectShape(UnionSource)
              => UnionResult = <<"Object", UnionSource["type"].s>>
        /\ LinkShape(UnionSource)
              => UnionResult = <<"Link", UnionSource["type"].s>>
        /\ (~ObjectShape(UnionSource) /\ ~LinkShape(UnionSource))
              => UnionResult = <<>>

C7_Witness ==
    /\ res.op = "extract"
    /\ res.ty = "Inner"
    /\ "object" \in DOMAIN OpenTail(kind, entity)
    /\ OpenTail(kind, entity)["object"] = NoteWithHref
    /\ UnionResult = <<"Object", "Note">>

\* The open tail of a Document with its known fields merged back in.
MergedTail ==
    LET withType == Insert(OpenTail(kind, entity), "type", JStr(entity.object.ty))
        withId == IF entity.object.id = <<>> THEN withType
                  ELSE Insert(withType, "id", JStr(entity.object.id[1]))
    IN  Insert(withId, "@context", JStr(entity.context))

\* What Extract<T> needs of the aggregate it is given.
Extractable(T, map) ==
    CASE T = "Object" -> ObjectShape(map)
      [] T = "JsonLdDocument" ->
            /\ "@context" \in DOMAIN map
            /\ map["@context"].kind = "string"
            /\ ObjectShape(map)
      [] T = "Inner" ->
            /\ "object" \in DOMAIN map
            /\ map["object"].kind = "object"
            /\ (ObjectShape(map["object"].m) \/ LinkShape(map["object"].m))

\* C8 as stated: for a Document, Extract<T> converts the open tail plus the
\* re-merged known fields, so a T that requires type or @context extracts.
C8_ExtractSeesKnownFields ==
    (res.op = "extract" /\ kind = "Document") =>
        (IsSome(res.val) <=> Extractable(res.ty, MergedTail))

\* C8 (amended): Extract<T> converts the open tail alone, for a Document too
\* (the tail of its embedded Object, without context, id or type), and yields
\* nothing when that fails; a T that requires type or @context is extracted
\* only when the open tail itself holds those members.
C8_ExtractSeesTailOnly ==
    res.op = "extract" =>
        /\ IsSome(res.val) <=> Extractable(res.ty, OpenTail(kind, entity))
        /\ (/\ res.ty \in {"Object", "JsonLdDocument"}
            /\ "type" \notin DOMAIN OpenTail(kind, entity)) => res.val = None
        /\ (res.ty = "JsonLdDocument" /\ IsSome(res.val)) =>
              /\ res.val[2].context = OpenTail(kind, entity)["@context"].s
              /\ res.val[2].object.ty = OpenTail(kind, entity)["type"].s

C8_Witness ==
    /\ res.op = "extract"
    /\ kind = "Document"
    /\ res.ty = "JsonLdDocument"
    /\ IsSome(res.val)
    /\ res.val[2].object.ty # entity.object.ty


\* The known fields of the lib.rs entities: the required ones, and what
\* each one's declared type reads.
RequiredNames(k) ==
    CASE k = "Document" -> {"@context", "type"}
      [] k = "Object" -> {"type"}
      [] k = "Link" -> {"type", "href"}

ReadsAs(k, name, v) ==
    CASE name = "@context" -> v.kind = "string"
      [] name = "href" -> v.kind = "string"
      [] name = "id" -> v.kind \in {"null", "string"}
      [] name = "type" ->
            /\ v.kind = "string"
            /\ v.s \in (IF k = "Link" THEN {"Link", "Mention"} ELSE ObjectTypeNames)

MissingRequired(k, text) == \E name \in RequiredNames(k) : name \notin Keys(text)

IllTyped(k, text) ==
    \E i \in 1..Len(text) :
        text[i][1] \in WireNames(k) /\ ~ReadsAs(k, text[i][1], text[i][2])

RepeatsKnown(k, text) == \E name \in WireNames(k) : Count(text, name) > 1

UnknownKept(k, text, e) ==
    \A i \in 1..Len(text) :
        text[i][1] \notin WireNames(k) =>
            /\ text[i][1] \in DOMAIN OpenTail(k, e)
            /\ \E j \in i..Len(text) :
                  text[j] = <<text[i][1], OpenTail(k, e)[text[i][1]]>>

\* C9 as stated: Parse fails exactly when a required known field is missing
\* or a known field's value does not convert; every unrecognized member is
\* kept in the open tail with its value.
C9_FailsOnlyOnKnownFields ==
    (res.op = "parse" /\ kind = "Document") =>
        /\ ~IsOk(res.val) <=>
              (MissingRequired(kind, res.arg) \/ IllTyped(kind, res.arg))
        /\ IsOk(res.val) =>
              \A i \in 1..Len(res.arg) :
                  res.arg[i][1] \notin WireNames(kind) =>
                      /\ res.arg[i][1] \in DOMAIN OpenTail(kind, res.val[2])
                      /\ OpenTail(kind, res.val[2])[res.arg[i][1]] = res.arg[i][2]

\* C9 (amended): Parse fails exactly when a required known field is missing,
\* a known field's value does not convert to its declared type (a null id
\* converts, to an absent id), or a known field's name occurs more than
\* once; no unrecognized name causes a failure, and every unrecognized name
\* is kept in the open tail, with the value of its last occurrence.
C9_FailsOnKnownFieldsOrRepeats ==
    (res.op = "parse" /\ kind # "CoreDocument") =>
        /\ ~IsOk(res.val) <=>
              \/ MissingRequired(kind, res.arg)
              \/ IllTyped(kind, res.arg)
              \/ RepeatsKnown(kind, res.arg)
        /\ IsOk(res.val) =>
              /\ UnknownKept(kind, res.arg, res.val[2])
              /\ DOMAIN OpenTail(kind, res.val[2]) = Keys(res.arg) \ WireNames(kind)

C9_Witness ==
    /\ res.op = "parse"
    /\ kind = "Document"
    /\ IsOk(res.val)
    /\ Len(res.arg) = MaxMembers
    /\ DOMAIN OpenTail(kind, res.val[2]) = {"name", "object"}

\* C10: for a Document, after Parse and any SetField calls, Serialize
\* writes no member name twice and the text parses back to an entity equal
\* to the one serialized.
C10_RoundTripAfterSetField ==
    (res.op = "deserialize" /\ kind = "Document") =>
        /\ \A name \in Keys(res.arg) : Count(res.arg, name) = 1
        /\ IsOk(res.val)
        /\ res.val[2] = entity

=============================================================================
